---- MODULE Spec2Model ----
(***************************************************************************)
(* Model of papers_crawler/crawl_text_async_nature.py: the crawl loop of   *)
(* crawl_text_nature_async (journals x years x listing pages x article     *)
(* cards), extract_fulltext_nature_as_json, save_json_to_file and the      *)
(* CSV / ZIP aggregation at the end of the run.                            *)
(*                                                                         *)
(* Strings the code slices or rewrites (dates, titles) are sequences of    *)
(* one-character strings.  The web site, the file system and the callbacks *)
(* are the environment: what they answer is chosen with \E in the action   *)
(* that calls them.                                                        *)
(***************************************************************************)
EXTENDS Integers, Sequences, FiniteSets, TLC

\* ------------------------------------------------------------------ bounds
MaxCards == 2     \* article cards on one listing page
MaxPage == 2      \* the listing of a (journal, year) is empty from this page on
MaxServed == 2    \* article cards the site serves during one run
MaxLimit == 1     \* largest integer limit the caller passes

\* ------------------------------------------------------- program constants
TitleCut == 100   \* article_title[:100]
YearCut == 4      \* article_date[:4]
MetaKeys == 2     \* len(json_data) > 2: "url" and "extracted_at"

\* ------------------------------------------------------------------ inputs
None == <<>>
Supplied == <<"callable">>

\* journal_slugs: None, one journal, two journals, the same journal twice
JournalLists == {None, <<"j1">>, <<"j1", "j2">>, <<"j1", "j1">>}
\* (year_from, year_to): one year, two years, and an empty window
YearWindows == {<<2023, 2023>>, <<2022, 2023>>, <<2024, 2023>>}
Limits == {None} \cup {<<k>> : k \in 0..MaxLimit}
\* (progress_callback, total_progress_callback): neither or both supplied; a
\* supplied callback returns or raises each time it is called
Callbacks == {<<None, None>>, <<Supplied, Supplied>>}

\* ------------------------------------------------ dates: int(article_date[:4])
Digits == {"0", "1", "2", "3", "4", "5", "6", "7", "8", "9"}

DigitVal(c) ==
  CASE c = "0" -> 0 [] c = "1" -> 1 [] c = "2" -> 2 [] c = "3" -> 3 [] c = "4" -> 4
    [] c = "5" -> 5 [] c = "6" -> 6 [] c = "7" -> 7 [] c = "8" -> 8 [] c = "9" -> 9

Take(s, n) == SubSeq(s, 1, IF Len(s) < n THEN Len(s) ELSE n)

RECURSIVE DigitsVal(_)
DigitsVal(s) ==
  IF s = <<>> THEN 0 ELSE 10 * DigitsVal(SubSeq(s, 1, Len(s) - 1)) + DigitVal(s[Len(s)])

AllDigits(s) == s # <<>> /\ \A i \in 1..Len(s) : s[i] \in Digits

\* Python int(s) on the characters the sample dates hold: an optional sign and
\* decimal digits; anything else raises ValueError (ok = FALSE).
ParseInt(s) ==
  IF AllDigits(s) THEN [ok |-> TRUE, val |-> DigitsVal(s)]
  ELSE IF s # <<>> /\ s[1] \in {"+", "-"} /\ AllDigits(Tail(s))
    THEN [ok |-> TRUE, val |-> IF s[1] = "-" THEN 0 - DigitsVal(Tail(s)) ELSE DigitsVal(Tail(s))]
  ELSE [ok |-> FALSE, val |-> 0]

ArticleYear(article_date) == ParseInt(Take(article_date, YearCut))

\* ------------------------------------------------ titles and file names
UnsafeChars == {"<", ">", ":", "\"", "/", "\\", "|", "?", "*"}

SafeTitle(article_title) ==
  [i \in 1..Len(Take(article_title, TitleCut)) |->
     IF article_title[i] \in UnsafeChars THEN "_" ELSE article_title[i]]

RECURSIVE IntChars(_)
DigitChar(d) == CHOOSE c \in Digits : DigitVal(c) = d
IntChars(n) == IF n < 10 THEN <<DigitChar(n)>> ELSE IntChars(n \div 10) \o <<DigitChar(n % 10)>>

\* f"Article_{found_count + 1}"
DefaultTitle(n) == <<"A", "r", "t", "i", "c", "l", "e", "_">> \o IntChars(n + 1)

JsonFilename(article_title, article_year) ==
  [stem |-> SafeTitle(article_title), year |-> article_year, ext |-> ".json"]

JsonPath(slug, json_filename) == [folder |-> slug, name |-> json_filename]

FullUrl(article_href) == <<"https://www.nature.com", article_href>>

\* ------------------------------------------------ listing cards (the site)
D2023 == <<"2", "0", "2", "3", "-", "0", "1", "-", "0", "5">>
D2022 == <<"2", "0", "2", "2">>
D2019 == <<"2", "0", "1", "9", "-", "1", "2", "-", "3", "1">>
DBad == <<"n", "/", "a">>

CardA ==
  [meta |-> TRUE, oa |-> TRUE, time |-> TRUE, datetime |-> D2023,
   link |-> TRUE, href |-> "/articles/a1", title |-> <<"A", ":", "1">>]
\* no h3.c-card__title: the title falls back to Article_<n>
CardB == [CardA EXCEPT !.datetime = D2022, !.href = "/articles/a2", !.title = None]

CardSamples ==
  { CardA, CardB,
    [CardA EXCEPT !.meta = FALSE],       \* no div.c-meta
    [CardA EXCEPT !.oa = FALSE],         \* no open-access label
    [CardA EXCEPT !.time = FALSE],       \* no time[datetime]
    [CardA EXCEPT !.datetime = DBad],    \* year does not parse
    [CardA EXCEPT !.datetime = None],    \* datetime=""
    [CardA EXCEPT !.datetime = D2019],   \* older than every window
    [CardA EXCEPT !.link = FALSE],       \* no a.c-card__link
    [CardA EXCEPT !.href = ""] }         \* link without href

\* ------------------------------------------------ article pages (the site)
\* What page.goto / the article's HTML gives: a navigation failure, or the
\* set of json_data keys the selectors of extract_fulltext_nature_as_json find.
ArticleDocs ==
  { [goto |-> "timeout", found |-> {}],
    [goto |-> "ok", found |-> {}],
    [goto |-> "ok", found |-> {"doi"}],
    [goto |-> "ok", found |-> {"title", "Abstract"}] }

\* extract_fulltext_nature_as_json: None, or json_data (its keys)
extract_fulltext_nature_as_json(doc, fulltext_url) ==
  IF doc.goto # "ok" THEN None
  ELSE LET json_data == {"url", "extracted_at"} \cup doc.found
       IN  IF Cardinality(json_data) > MetaKeys
           THEN <<[url |-> fulltext_url, keys |-> json_data]>>
           ELSE None

VARIABLES
  journal_slugs, year_from, year_to, limit, progress_callback, total_progress_callback,
  pc, slug_i, year, page_num, articles, art_i,
  found_count, page_oa_found,
  saved_files, open_access_articles, article_metadata,
  browsers, error, returned, manifest, archive,
  fetch_log, served, written, callback_log, ev

config == <<journal_slugs, year_from, year_to, limit, progress_callback, total_progress_callback>>
position == <<slug_i, year, page_num, articles, art_i>>
counters == <<found_count, page_oa_found>>
lists == <<saved_files, open_access_articles, article_metadata, written, callback_log>>
outputs == <<returned, manifest, archive>>
vars == <<config, pc, position, counters, lists, browsers, error, outputs, fetch_log, served, ev>>

\* `if limit and found_count >= limit`
Truthy(lim) == lim # None /\ lim[1] # 0
LimitReached == Truthy(limit) /\ found_count >= limit[1]

NoCard == [meta |-> FALSE, oa |-> FALSE, time |-> FALSE, datetime |-> None,
           link |-> FALSE, href |-> "", title |-> None]
\* ev: what the last step did (op, the card it looked at, whether the article
\* page was requested, how it ended, whether asyncio.sleep(1) ran)
Event(op, card, fetched, outcome, paced) ==
  [op |-> op, card |-> card, fetched |-> fetched, outcome |-> outcome, paced |-> paced,
   keys |-> {}]
NoEvent == Event("none", NoCard, FALSE, "none", FALSE)

Init ==
  /\ journal_slugs \in JournalLists
  /\ \E w \in YearWindows : year_from = w[1] /\ year_to = w[2]
  /\ limit \in Limits
  /\ \E cb \in Callbacks : progress_callback = cb[1] /\ total_progress_callback = cb[2]
  /\ pc = "start"
  /\ slug_i = 0 /\ year = 0 /\ page_num = 0 /\ articles = 0 /\ art_i = 0
  /\ found_count = 0 /\ page_oa_found = 0
  /\ saved_files = <<>> /\ open_access_articles = <<>> /\ article_metadata = <<>>
  /\ written = <<>> /\ callback_log = <<>>
  /\ browsers = {} /\ error = None
  /\ returned = None /\ manifest = None /\ archive = None
  /\ fetch_log = <<>> /\ served = 0
  /\ ev = NoEvent

\* ------------------------------------------------------------- lines 353-410
\* Set-up, then `if journal_slugs:` and the first total_progress_callback call,
\* which no try block encloses.
Start ==
  /\ pc = "start"
  /\ slug_i' = 1
  /\ IF journal_slugs = None
       THEN /\ pc' = "finalize" /\ error' = error
            /\ ev' = Event("start", NoCard, FALSE, "no_journals", FALSE)
       ELSE \E raises \in BOOLEAN :
              IF total_progress_callback # None /\ raises
                THEN /\ pc' = "aborted" /\ error' = <<"total_progress_callback">>
                     /\ ev' = Event("start", NoCard, FALSE, "total_callback_raised", FALSE)
                ELSE /\ pc' = "journal" /\ error' = error
                     /\ ev' = Event("start", NoCard, FALSE, "ok", FALSE)
  /\ UNCHANGED <<config, year, page_num, articles, art_i, counters, lists, browsers,
                 outputs, fetch_log, served>>

\* ------------------------------------------------------------- lines 413-435
\* `for slug in journal_slugs:` and the browser set-up, which precedes `try:`.
SetupSteps == <<"launch", "new_context", "apply_stealth", "new_page">>
SetupOutcomes == {"ok"} \cup {SetupSteps[i] : i \in 1..Len(SetupSteps)}

\* the year loop starts at the oldest year
FirstYearOldest == year_from

\* range(year_to, year_from - 1, -1): the first year of a journal
FirstYear == year_to

NextJournal ==
  /\ pc = "journal"
  /\ IF slug_i > Len(journal_slugs)
       THEN /\ pc' = "finalize"
            /\ ev' = Event("journal", NoCard, FALSE, "no_more_journals", FALSE)
            /\ UNCHANGED <<browsers, error, year>>
       ELSE \E failed \in SetupOutcomes :
              /\ browsers' = IF failed = "launch" THEN browsers ELSE browsers \cup {slug_i}
              /\ IF failed = "ok"
                   THEN /\ pc' = "year" /\ year' = FirstYear
                        /\ error' = error
                   ELSE /\ pc' = "aborted" /\ error' = <<failed>>
                        /\ year' = year
              /\ ev' = Event("journal", NoCard, FALSE, failed, FALSE)
  /\ UNCHANGED <<config, slug_i, page_num, articles, art_i, found_count, page_oa_found,
                 lists, outputs, fetch_log, served>>

\* ------------------------------------------------------------- lines 439-445
\* `for year in range(year_to, year_from - 1, -1):` with the limit check.
YearLoop ==
  /\ pc = "year"
  /\ IF year < year_from
       THEN /\ pc' = "close" /\ page_num' = page_num
            /\ ev' = Event("year", NoCard, FALSE, "no_more_years", FALSE)
       ELSE IF LimitReached
         THEN /\ pc' = "close" /\ page_num' = page_num
              /\ ev' = Event("year", NoCard, FALSE, "limit_break", FALSE)
         ELSE /\ pc' = "page" /\ page_num' = 1
              /\ ev' = Event("year", NoCard, FALSE, "ok", FALSE)
  /\ UNCHANGED <<config, slug_i, year, articles, art_i, counters, lists, browsers, error,
                 outputs, fetch_log, served>>

\* ------------------------------------------------------------- lines 448-481
\* One pass of `while True:` up to the card loop: limit check, page.goto,
\* find_all of the article cards.
Coordinate(ok, n) ==
  [target |-> slug_i, slug |-> journal_slugs[slug_i], year |-> year, page |-> page_num,
   ok |-> ok, empty |-> n = 0]

\* an empty page no longer ends the year's pagination
NoArticlesNever(n) == FALSE

\* `if not articles:`
NoArticles(n) == n = 0

\* the exception is swallowed per coordinate and the year loop goes on
ListingErrorSkipsYear == "year"

\* where an exception of page.goto / page.content lands: `except Exception` of
\* the journal (line 591), then `finally`
ListingErrorHandler == "close"

FetchListing ==
  /\ pc = "page"
  /\ IF LimitReached
       THEN /\ pc' = "year" /\ year' = year - 1
            /\ ev' = Event("listing", NoCard, FALSE, "limit_break", FALSE)
            /\ UNCHANGED <<page_num, articles, art_i, page_oa_found, fetch_log, served>>
       ELSE \/ /\ pc' = ListingErrorHandler
               /\ year' = IF ListingErrorHandler = "year" THEN year - 1 ELSE year
               /\ fetch_log' = Append(fetch_log, Coordinate(FALSE, 0))
               /\ ev' = Event("listing", NoCard, FALSE, "error", FALSE)
               /\ UNCHANGED <<page_num, articles, art_i, page_oa_found, served>>
            \/ \E n \in 0..MaxCards :
                 /\ n > 0 => served + n <= MaxServed
                 /\ page_num >= MaxPage => n = 0
                 /\ fetch_log' = Append(fetch_log, Coordinate(TRUE, n))
                 /\ served' = served + n
                 /\ IF NoArticles(n)
                      THEN /\ pc' = "year" /\ year' = year - 1
                           /\ ev' = Event("listing", NoCard, FALSE, "empty", FALSE)
                           /\ UNCHANGED <<articles, art_i, page_oa_found>>
                      ELSE /\ pc' = "stub" /\ year' = year
                           /\ articles' = n /\ art_i' = 1 /\ page_oa_found' = 0
                           /\ ev' = Event("listing", NoCard, FALSE, "cards", FALSE)
                 /\ page_num' = page_num
  /\ UNCHANGED <<config, slug_i, found_count, lists, browsers, error, outputs>>

\* ------------------------------------------------------------- lines 482-573
\* One pass of `for art in articles:`.
\* the lower end of the window is not checked
InYearWindowNoLower(y) == y <= year_to

InYearWindow(y) == year_from <= y /\ y <= year_to

\* the open-access label is not looked at
RejectReasonNoOA(art) ==
  IF ~art.meta THEN "no_meta"
  ELSE IF ~art.time THEN "no_time"
  ELSE IF ~ArticleYear(art.datetime).ok THEN "bad_year"
  ELSE IF ~InYearWindow(ArticleYear(art.datetime).val) THEN "out_of_range"
  ELSE IF ~art.link THEN "no_link"
  ELSE IF art.href = "" THEN "no_href"
  ELSE "ok"

\* the `continue` of lines 487-522, in the code's order; "ok" when none is taken
RejectReason(art) ==
  IF ~art.meta THEN "no_meta"
  ELSE IF ~art.oa THEN "no_oa"
  ELSE IF ~art.time THEN "no_time"
  ELSE IF ~ArticleYear(art.datetime).ok THEN "bad_year"
  ELSE IF ~InYearWindow(ArticleYear(art.datetime).val) THEN "out_of_range"
  ELSE IF ~art.link THEN "no_link"
  ELSE IF art.href = "" THEN "no_href"
  ELSE "ok"

\* `break` where the code has `continue`: the rest of the page is dropped
SkipStubBreak(i) == articles + 1

\* `continue`: on to the next card of the page
SkipStub(i) == i + 1

\* the write error is not reported: True whatever json.dump did
SaveReportsTrue(write_ok) == TRUE

\* save_json_to_file: True when the file was written, False when open or
\* json.dump raised
save_json_to_file(write_ok) == write_ok

\* the callback is called before the result of the save is looked at
CallbackCallsAlways(saved, json_filename, json_path) ==
  IF progress_callback # None THEN << <<json_filename, json_path>> >> ELSE <<>>

\* `if progress_callback: progress_callback(json_filename, json_path)` inside
\* `if await save_json_to_file(...)`: the calls one card makes
CallbackCalls(saved, json_filename, json_path) ==
  IF saved /\ progress_callback # None THEN << <<json_filename, json_path>> >> ELSE <<>>

\* the title is not appended to open_access_articles
RecordSkipsTitle(json_path, article_title, article_date) ==
  [saved_files |-> Append(saved_files, json_path),
   open_access_articles |-> open_access_articles,
   article_metadata |-> Append(article_metadata, <<json_path, article_title, article_date>>),
   found_count |-> found_count + 1]

\* save_json_to_file succeeded: lines 556-559
Record(json_path, article_title, article_date) ==
  [saved_files |-> Append(saved_files, json_path),
   open_access_articles |-> Append(open_access_articles, article_title),
   article_metadata |-> Append(article_metadata, <<json_path, article_title, article_date>>),
   found_count |-> found_count + 1]

\* the cards a listing page can hold: any sample while the listing is within
\* MaxServed, cards without the open-access label on the pages past it
Offered == IF served > MaxServed THEN {c \in CardSamples : c.meta /\ ~c.oa} ELSE CardSamples

ProcessArticle ==
  /\ pc = "stub" /\ art_i <= articles /\ ~LimitReached
  /\ \E art \in Offered :
       IF RejectReason(art) # "ok"
         THEN /\ art_i' = SkipStub(art_i)
              /\ ev' = Event("stub", art, FALSE, RejectReason(art), FALSE)
              /\ UNCHANGED <<counters, lists>>
         ELSE \E doc \in ArticleDocs, save_ok \in BOOLEAN, raises \in BOOLEAN :
           LET article_date == art.datetime
               article_year == ArticleYear(article_date).val
               full_url == FullUrl(art.href)
               article_title == IF art.title = None THEN DefaultTitle(found_count)
                                ELSE art.title
               json_data == extract_fulltext_nature_as_json(doc, full_url)
               json_filename == JsonFilename(article_title, article_year)
               json_path == JsonPath(journal_slugs[slug_i], json_filename)
               rec == Record(json_path, article_title, article_date)
               saved == save_json_to_file(save_ok)
           IN  /\ page_oa_found' = page_oa_found + 1
               /\ IF json_data = None
                    THEN /\ art_i' = SkipStub(art_i)
                         /\ ev' = Event("stub", art, TRUE, "extract_failed", FALSE)
                         /\ UNCHANGED <<found_count, lists>>
                    ELSE IF ~saved
                      THEN /\ art_i' = art_i + 1
                           /\ callback_log' =
                                callback_log \o CallbackCalls(saved, json_filename, json_path)
                           /\ ev' = [Event("stub", art, TRUE, "save_failed", TRUE)
                                       EXCEPT !.keys = json_data[1].keys]
                           /\ UNCHANGED <<found_count, saved_files, open_access_articles,
                                          article_metadata, written>>
                      ELSE /\ art_i' = art_i + 1
                           /\ callback_log' =
                                callback_log \o CallbackCalls(saved, json_filename, json_path)
                           /\ saved_files' = rec.saved_files
                           /\ open_access_articles' = rec.open_access_articles
                           /\ article_metadata' = rec.article_metadata
                           /\ found_count' = rec.found_count
                           /\ written' = IF save_ok
                                           THEN Append(written, [path |-> json_path,
                                                                 url |-> json_data[1].url])
                                           ELSE written
                           /\ ev' = [Event("stub", art, TRUE,
                                           IF ~save_ok THEN "save_failed"
                                           ELSE IF progress_callback # None /\ raises
                                             THEN "callback_raised" ELSE "saved", TRUE)
                                       EXCEPT !.keys = json_data[1].keys]
  /\ UNCHANGED <<config, pc, slug_i, year, page_num, articles, browsers, error, outputs,
                 fetch_log, served>>

\* ---------------------------------------------- lines 483-485 and 575-587
\* The card loop ends (cards exhausted, or the limit `break`); then the limit
\* check after the page, or page_num += 1.
\* a page without an open-access card ends the year's pagination
NoOaPageBreaks(n) == IF n = 0 THEN "year" ELSE "page"

\* `if page_oa_found == 0:` only prints; the loop goes on to `page_num += 1`
NoOaPage(n) == "page"

\* `page_num += 1`; page numbers past MaxPage are kept as MaxPage + 1
NextPageNum == IF page_num > MaxPage THEN page_num ELSE page_num + 1

EndOfPage ==
  /\ pc = "stub" /\ (art_i > articles \/ LimitReached)
  /\ IF LimitReached
       THEN /\ pc' = "year" /\ year' = year - 1 /\ page_num' = page_num
            /\ ev' = Event("page_end", NoCard, FALSE, "limit_break", FALSE)
       ELSE /\ pc' = NoOaPage(page_oa_found)
            /\ year' = IF pc' = "page" THEN year ELSE year - 1
            /\ page_num' = IF pc' = "page" THEN NextPageNum ELSE page_num
            /\ ev' = Event("page_end", NoCard, FALSE,
                           IF pc' = "page" THEN "next_page" ELSE "no_oa_break", FALSE)
  /\ UNCHANGED <<config, slug_i, articles, art_i, counters, lists, browsers, error,
                 outputs, fetch_log, served>>

\* ------------------------------------------------------------- lines 589-597
\* `finally: await browser.close()`, then the next slug.
CloseBrowser ==
  /\ pc = "close"
  /\ browsers' = browsers \ {slug_i}
  /\ slug_i' = slug_i + 1
  /\ pc' = "journal"
  /\ ev' = Event("close", NoCard, FALSE, "closed", FALSE)
  /\ UNCHANGED <<config, year, page_num, articles, art_i, counters, lists, error, outputs,
                 fetch_log, served>>

\* ------------------------------------------------------------- lines 599-645
\* CSV summary and ZIP archive, each in its own try/except, then the return.
\* enumerate(article_metadata) without the start value: ordinals from 0
ManifestRowsFromZero ==
  [i \in 1..Len(article_metadata) |->
     [number |-> i - 1, journal |-> article_metadata[i][1].folder,
      name |-> article_metadata[i][2], date |-> article_metadata[i][3],
      path |-> article_metadata[i][1]]]

\* the rows writer.writerow writes after the header, lines 619-622
ManifestRows ==
  [i \in 1..Len(article_metadata) |->
     [number |-> i, journal |-> article_metadata[i][1].folder,
      name |-> article_metadata[i][2], date |-> article_metadata[i][3],
      path |-> article_metadata[i][1]]]

\* os.path.relpath(file_path, out_folder)
ArchiveNames == [i \in 1..Len(saved_files) |-> <<saved_files[i].folder, saved_files[i].name>>]

\* the failure of the CSV or ZIP block is not caught
AggregationErrorRaises == "aborted"

\* where a failure of the CSV or ZIP block lands: its own `except`, so the
\* function goes on to `return`
AggregationErrorHandler == "done"

Finalize ==
  /\ pc = "finalize"
  /\ IF saved_files = <<>>
       THEN /\ pc' = "done"
            /\ returned' = <<saved_files, open_access_articles>>
            /\ ev' = Event("finalize", NoCard, FALSE, "nothing_saved", FALSE)
            /\ UNCHANGED <<manifest, archive, error>>
       ELSE \E csv_ok \in BOOLEAN, zip_ok \in BOOLEAN :
              /\ manifest' = IF csv_ok THEN ManifestRows ELSE None
              /\ archive' = IF zip_ok THEN ArchiveNames ELSE None
              /\ pc' = IF csv_ok /\ zip_ok THEN "done" ELSE AggregationErrorHandler
              /\ returned' = IF pc' = "done" THEN <<saved_files, open_access_articles>>
                             ELSE None
              /\ error' = IF pc' = "done" THEN error ELSE <<"aggregation">>
              /\ ev' = Event("finalize", NoCard, FALSE,
                             IF csv_ok /\ zip_ok THEN "written"
                             ELSE IF csv_ok THEN "zip_failed"
                             ELSE IF zip_ok THEN "csv_failed" ELSE "both_failed", FALSE)
  /\ UNCHANGED <<config, position, counters, lists, browsers, fetch_log, served>>

Next ==
  \/ Start
  \/ NextJournal
  \/ YearLoop
  \/ FetchListing
  \/ ProcessArticle
  \/ EndOfPage
  \/ CloseBrowser
  \/ Finalize

Spec == Init /\ [][Next]_vars

\* ------------------------------------------------------------- lines 448-481
\* A listing that has no last page: `while True:` has no bound on page_num, so
\* a page past MaxPage may still hold cards.  fetch_log keeps the coordinates
\* up to MaxPage only.
FetchListingEndless ==
  /\ pc = "page" /\ ~LimitReached /\ page_num >= MaxPage
  /\ \E n \in 1..MaxCards :
       /\ articles' = n /\ art_i' = 1 /\ page_oa_found' = 0
       /\ served' = MaxServed + 1
       /\ pc' = "stub"
       /\ ev' = Event("listing", NoCard, FALSE, "cards", FALSE)
  /\ UNCHANGED <<config, slug_i, year, page_num, found_count, lists, browsers, error,
                 outputs, fetch_log>>

NextEndless ==
  \/ Next
  \/ FetchListingEndless

\* the event loop runs the coroutine whenever it can take a step
SpecEndless == Init /\ [][NextEndless]_vars /\ WF_vars(NextEndless)

\* ================================================================== claims
\* A step of ProcessArticle: the card loop moves on by one card.
StubStep == pc = "stub" /\ pc' = "stub" /\ art_i' # art_i
SetupFailures == {SetupSteps[i] : i \in 1..Len(SetupSteps)}
WrittenUrls == {written[i].url : i \in 1..Len(written)}

\* C1: for every integer limit k >= 0 the number of persisted records
\* (found_count, the length of saved_files) never exceeds k.
C1_LimitEnforced ==
  limit # None => (found_count <= limit[1] /\ Len(saved_files) <= limit[1])

\* C2: an article URL is persisted at most once in a run and found_count is the
\* number of distinct persisted URLs.
C2_DedupIdempotent ==
  /\ \A i, j \in 1..Len(written) : written[i].url = written[j].url => i = j
  /\ found_count = Cardinality(WrittenUrls)

\* C3: once found_count has reached the limit, no listing page is fetched and
\* no article card is started any more.
C3_LimitEndsSequence ==
  [][(limit # None /\ found_count >= limit[1])
       => (fetch_log' = fetch_log /\ ~StubStep)]_vars

\* no page beyond an empty page of the same (target, year) is in the log
C4_NoPageAfterEmpty ==
  \A i, j \in 1..Len(fetch_log) :
    (i < j /\ fetch_log[i].ok /\ fetch_log[i].empty
       /\ fetch_log[j].target = fetch_log[i].target
       /\ fetch_log[j].year = fetch_log[i].year)
    => fetch_log[j].page <= fetch_log[i].page

\* right after an empty listing the year loop holds the next older year
C4_AfterEmpty ==
  (ev.op = "listing" /\ ev.outcome = "empty")
    => /\ pc = "year"
       /\ slug_i = fetch_log[Len(fetch_log)].target
       /\ year = fetch_log[Len(fetch_log)].year - 1

\* C4: after the listing of (target, year, page P) came back without cards, no
\* page beyond P of that (target, year) is fetched, and the crawl goes on with
\* page 1 of the next older year of the same target (a target is one entry of
\* journal_slugs).
C4_PaginationTermination ==
  /\ [](C4_NoPageAfterEmpty /\ C4_AfterEmpty)
  /\ [][(pc = "year" /\ ev.op = "listing" /\ ev.outcome = "empty" /\ year >= year_from)
          => (pc' = "page" /\ page_num' = 1 /\ year' = year /\ slug_i' = slug_i)]_vars
  /\ [][(pc = "page" /\ ev.op = "year" /\ ev.outcome = "ok")
          => (Len(fetch_log') = Len(fetch_log) + 1
              /\ fetch_log'[Len(fetch_log')].target = slug_i
              /\ fetch_log'[Len(fetch_log')].year = year
              /\ fetch_log'[Len(fetch_log')].page = 1)]_vars

\* C4 witness: an empty page for a year, then page 1 of the next older year of that target
C4_Witness ==
  \E i \in 1..Len(fetch_log) - 1 :
    /\ fetch_log[i].ok /\ fetch_log[i].empty
    /\ fetch_log[i + 1].target = fetch_log[i].target
    /\ fetch_log[i + 1].year = fetch_log[i].year - 1
    /\ fetch_log[i + 1].page = 1

C5_NoFetchAfterError ==
  \A i, j \in 1..Len(fetch_log) :
    (i < j /\ ~fetch_log[i].ok) => fetch_log[j].target # fetch_log[i].target

C6_TargetFailureIsolated ==
  (ev.op = "journal" /\ ev.outcome \in SetupFailures) => (pc # "aborted" /\ error = None)

\* C7: a fetch error or extraction failure (or a failed save) on one card leaves
\* the records persisted so far untouched and moves on to the next card of the
\* same page; a page is left only with every card visited or the limit
\* reached, and without the limit reached the next page is fetched.
C7_StubFailureIsolated ==
  /\ [][(StubStep /\ ev'.outcome \in {"extract_failed", "save_failed"})
          => (art_i' = art_i + 1 /\ lists' = lists /\ found_count' = found_count
              /\ error' = None)]_vars
  /\ [][StubStep => art_i' = art_i + 1]_vars
  /\ [](ev.op = "page_end" => (art_i = articles + 1 \/ LimitReached))
  /\ [][(pc = "stub" /\ art_i > articles /\ ~LimitReached)
          => (pc' = "page" /\ page_num' = page_num + 1 /\ year' = year)]_vars

\* C7 witness: on one page the first eligible card failed and the second was persisted
C7_Witness ==
  /\ pc = "stub" /\ articles = 2 /\ art_i = 3 /\ page_oa_found = 2
  /\ ev.outcome = "saved" /\ found_count = 1 /\ Len(fetch_log) = 1

\* C8: a card whose year is outside [year_from, year_to], or whose date gives no
\* year, is rejected: no article page is requested for it and the persisted
\* lists and found_count stay as they were.
C8_YearFilter ==
  [][(StubStep /\ ev'.card.time
        /\ (\/ ~ArticleYear(ev'.card.datetime).ok
            \/ ArticleYear(ev'.card.datetime).val < year_from
            \/ ArticleYear(ev'.card.datetime).val > year_to))
       => (~ev'.fetched /\ lists' = lists /\ found_count' = found_count)]_vars

\* C8 witness: a record is persisted, and afterwards an open-access card of 2022 is turned
\* down by the window 2023..2023
C8_Witness ==
  /\ ev.op = "stub" /\ ev.outcome = "out_of_range" /\ ev.card.datetime = D2022
  /\ found_count = 1

\* C9: a callback that raises does not make the crawl fail.
C9_CallbacksBestEffort ==
  ev.outcome \in {"callback_raised", "total_callback_raised"}
    => (pc # "aborted" /\ error = None)

\* after the CSV / ZIP blocks the function has returned the two lists, which
\* name the records save_json_to_file wrote, one entry each, in order
C10_Returned ==
  ev.op = "finalize"
    => /\ pc = "done" /\ error = None
       /\ returned = <<saved_files, open_access_articles>>
       /\ Len(returned[1]) = Len(written) /\ Len(returned[2]) = Len(written)
       /\ \A i \in 1..Len(written) :
            /\ returned[1][i] = written[i].path
            /\ SafeTitle(returned[2][i]) = written[i].path.name.stem

\* C10: when the CSV or the ZIP cannot be written the run still returns, and it
\* returns the paths and titles of exactly the records save_json_to_file wrote;
\* the failure changes neither list.
C10_AggregationFailureNotPropagated ==
  /\ [](C10_Returned)
  /\ [][pc = "finalize" => (lists' = lists /\ found_count' = found_count)]_vars

\* C10 witness: two records persisted, the CSV fails, the run has returned
C10_Witness ==
  /\ pc = "done" /\ ev.outcome = "csv_failed" /\ manifest = None
  /\ Len(returned[1]) = 2

\* records persisted so far into the folder of one journal
PersistedFor(slug) == Cardinality({i \in 1..Len(saved_files) : saved_files[i].folder = slug})

\* C11: limit counts per journal: the crawl of a journal is cut short by the
\* limit only when that journal itself has limit records persisted.
C11_LimitPerJournal ==
  (ev.outcome = "limit_break" /\ slug_i <= Len(journal_slugs))
    => PersistedFor(journal_slugs[slug_i]) >= limit[1]

\* C12: no (journal, year, page) listing coordinate is fetched twice in a run.
C12_NoCoordinateRevisited ==
  \A i, j \in 1..Len(fetch_log) :
    (fetch_log[i].ok /\ fetch_log[j].ok
       /\ fetch_log[i].slug = fetch_log[j].slug /\ fetch_log[i].year = fetch_log[j].year
       /\ fetch_log[i].page = fetch_log[j].page) => i = j

\* C13: after every attempt to fetch and extract an article the pacing delay
\* (asyncio.sleep(1)) runs before the next request.
C13_PacedAfterEveryAttempt ==
  (ev.op = "stub" /\ ev.fetched) => ev.paced

\* C14: a browser launched for a target is closed on every way out of that
\* target's processing: at most one is open, and none once the target's
\* processing is over (next target, run end, run aborted).
C14_BrowserClosed ==
  /\ Cardinality(browsers) <= 1
  /\ pc \in {"journal", "finalize", "done", "aborted"} => browsers = {}

\* C15: an accepted card whose article fetch fails, whose extraction gives no
\* record or whose save fails leaves found_count, saved_files,
\* open_access_articles and article_metadata as they were; they change only
\* in a step that wrote a file.
C15_FailureLeavesStateUnchanged ==
  /\ [][(StubStep /\ ev'.fetched /\ ev'.outcome \in {"extract_failed", "save_failed"})
          => (found_count' = found_count /\ saved_files' = saved_files
              /\ open_access_articles' = open_access_articles
              /\ article_metadata' = article_metadata)]_vars
  /\ [][(written' = written)
          => (found_count' = found_count /\ saved_files' = saved_files
              /\ open_access_articles' = open_access_articles
              /\ article_metadata' = article_metadata)]_vars

\* C15 witness: one record is persisted, then the save of the next card fails
C15_Witness ==
  /\ ev.op = "stub" /\ ev.outcome = "save_failed"
  /\ found_count = 1 /\ Len(saved_files) = 1 /\ Len(article_metadata) = 1

\* two consecutive listing fetches: the next page of the same (target, year)
\* after a page with cards, or page 1 of the next older year of the target,
\* or page 1 of the newest year of the next target of the list
InOrder(a, b) ==
  \/ /\ b.target = a.target /\ b.year = a.year /\ b.page = a.page + 1
     /\ a.ok /\ ~a.empty
  \/ /\ b.target = a.target /\ b.year = a.year - 1 /\ b.page = 1
  \/ /\ b.target = a.target + 1 /\ b.year = year_to /\ b.page = 1

FetchOrder ==
  /\ fetch_log # <<>> =>
       (fetch_log[1].target = 1 /\ fetch_log[1].year = year_to /\ fetch_log[1].page = 1)
  /\ \A i \in 1..Len(fetch_log) :
       /\ year_from <= fetch_log[i].year /\ fetch_log[i].year <= year_to
       /\ fetch_log[i].target <= slug_i
  /\ \A i \in 1..Len(fetch_log) - 1 : InOrder(fetch_log[i], fetch_log[i + 1])

\* C16: targets are taken one at a time in list order, each finished before
\* the next; within a target the years run from year_to downwards; within a
\* (target, year) the pages are 1, 2, 3, ... without a gap; within a page the
\* cards are taken in document order.
C16_TraversalOrder ==
  /\ [](FetchOrder)
  /\ []((ev.op = "listing" /\ ev.outcome = "cards") => art_i = 1)
  /\ [][StubStep => art_i' = art_i + 1]_vars
  /\ [][slug_i' = slug_i \/ (slug_i' = slug_i + 1 /\ pc \in {"start", "close"})]_vars

\* C16 witness: two pages of the newest year, then the older year, then the
\* second target
C16_Witness ==
  /\ Len(fetch_log) >= 4
  /\ fetch_log[2].page = 2
  /\ fetch_log[3].year = year_to - 1 /\ fetch_log[3].target = 1
  /\ fetch_log[Len(fetch_log)].target = 2

\* the card of the step lacks the meta section, the open-access label, the
\* time element or the article link
Ineligible(art) == ~art.meta \/ ~art.oa \/ ~art.time \/ ~art.link

\* C17: a card without the open-access label (or without meta section, time
\* element or link) is dropped before the article page is fetched: the step
\* fetches nothing, saves nothing, counts nothing and calls no callback.
C17_FilteredBeforeFetch ==
  [][(StubStep /\ Ineligible(ev'.card)) =>
       /\ ~ev'.fetched
       /\ lists' = lists
       /\ found_count' = found_count
       /\ page_oa_found' = page_oa_found]_vars

\* C17 witness: a card without the open-access label has just been dropped on a
\* page whose earlier card was saved
C17_Witness ==
  /\ ev.op = "stub" /\ ev.outcome = "no_oa" /\ ~ev.card.oa /\ ev.card.meta
  /\ found_count = 1 /\ art_i = 3

LastFetch == fetch_log[Len(fetch_log)]

\* the step leaves the pagination of the current (target, year)
PaginationEnds == pc \in {"page", "stub"} /\ pc' \notin {"page", "stub"}

\* a page whose cards are exhausted without the limit being reached is
\* followed by page_num + 1 of the same (target, year), whatever was saved
NextPageFollows ==
  /\ [][(pc = "stub" /\ art_i > articles /\ ~LimitReached) =>
          (pc' = "page" /\ page_num' = page_num + 1 /\ year' = year /\ slug_i' = slug_i)]_vars
  /\ [][(pc = "page" /\ ev.op = "page_end" /\ ev.outcome = "next_page") =>
          /\ Len(fetch_log') = Len(fetch_log) + 1
          /\ LastFetch'.target = slug_i /\ LastFetch'.year = year
          /\ LastFetch'.page = page_num]_vars

C19_EventuallyReturns == <>(pc \in {"done", "aborted"})

\* the calls of progress_callback that the saved files account for
CallsForSaved == [i \in 1..Len(saved_files) |-> <<saved_files[i].name, saved_files[i]>>]

\* C20: a supplied progress_callback is called exactly once per saved record,
\* in the order of saving, with the record's (filename, path), in the step
\* that wrote the file and appended it to saved_files; it is not called for a
\* card that was skipped or whose save failed, and never when not supplied.
C20_CallbackPerSavedRecord ==
  /\ [](callback_log = IF progress_callback # None THEN CallsForSaved ELSE <<>>)
  /\ [][callback_log' # callback_log =>
          /\ StubStep /\ ev'.outcome \in {"saved", "callback_raised"}
          /\ Len(callback_log') = Len(callback_log) + 1
          /\ Len(written') = Len(written) + 1
          /\ Len(saved_files') = Len(saved_files) + 1
          /\ callback_log'[Len(callback_log')][2] = saved_files'[Len(saved_files')]
          /\ written'[Len(written')].path = saved_files'[Len(saved_files')]]_vars

\* C20 witness: with a callback supplied, one card was saved and reported and
\* a later card's save has just failed
C20_Witness ==
  /\ progress_callback # None
  /\ ev.op = "stub" /\ ev.outcome = "save_failed"
  /\ Len(callback_log) = 1 /\ Len(saved_files) = 1

\* the CSV summary has one row per saved record, in the order of saving,
\* numbered from 1
ManifestMatches ==
  /\ Len(manifest) = Len(written)
  /\ \A i \in 1..Len(manifest) :
       /\ manifest[i].number = i
       /\ manifest[i].path = written[i].path
       /\ manifest[i].path = saved_files[i]
       /\ manifest[i].journal = saved_files[i].folder
       /\ manifest[i].name = open_access_articles[i]

\* the ZIP archive has an entry for every saved path, named by its path below
\* out_folder
ArchiveMatches ==
  /\ Len(archive) = Len(written)
  /\ \A i \in 1..Len(archive) : archive[i] = <<written[i].path.folder, written[i].path.name>>

\* C21: the CSV summary and the ZIP archive are produced only when at least one
\* record was saved; the summary then has one row per saved record in saving
\* order, numbered 1..n, and the archive an entry per saved path named relative
\* to out_folder; with no saved record neither is produced.
C21_ManifestAndArchive ==
  /\ written = <<>> => (manifest = None /\ archive = None)
  /\ pc # "done" => (manifest = None /\ archive = None)
  /\ manifest # None => (written # <<>> /\ ManifestMatches)
  /\ archive # None => (written # <<>> /\ ArchiveMatches)

\* C21 witness: the run ended with two saved records, a summary and an archive
C21_Witness ==
  /\ pc = "done" /\ Len(written) = 2
  /\ manifest # None /\ archive # None

\* the json_data keys that hold text of the article: title, authors, abstract,
\* figures, references (a body section would be keyed by its data-title)
ContentKeys == {"title", "authors", "Abstract", "Figures", "References"}

\* C22: extract_fulltext_nature_as_json returns a record only when json_data
\* has an entry beyond metadata: a page that gives no title, authors,
\* abstract, body section, figures or references gives None, so every record
\* that reaches save_json_to_file has at least one such entry.
C22_MetadataOnlyIsFailure ==
  (ev.op = "stub" /\ ev.outcome \in {"saved", "callback_raised", "save_failed"}) =>
    ev.keys \cap ContentKeys # {}

\* s2 is s1, or s1 with one entry appended
GrowsByAppend(s1, s2) ==
  \/ s2 = s1
  \/ Len(s2) = Len(s1) + 1 /\ SubSeq(s2, 1, Len(s1)) = s1

\* found_count is the length of each list, and entry i of each list belongs
\* to the i-th file written
ListsAgree ==
  /\ found_count = Len(saved_files)
  /\ found_count = Len(open_access_articles)
  /\ found_count = Len(article_metadata)
  /\ found_count = Len(written)
  /\ \A i \in 1..found_count :
       /\ written[i].path = saved_files[i]
       /\ article_metadata[i][1] = saved_files[i]
       /\ article_metadata[i][2] = open_access_articles[i]
       /\ ArticleYear(article_metadata[i][3]).ok
       /\ saved_files[i].name =
            JsonFilename(open_access_articles[i], ArticleYear(article_metadata[i][3]).val)

\* C23: between card steps found_count equals the length of saved_files, of
\* open_access_articles and of article_metadata, entry i of each list
\* describes the same saved record, the lists change only by an append at the
\* end, and the function returns these lists.
C23_RunStateConsistent ==
  /\ [](ListsAgree)
  /\ [](returned # None => returned = <<saved_files, open_access_articles>>)
  /\ [][/\ GrowsByAppend(saved_files, saved_files')
        /\ GrowsByAppend(open_access_articles, open_access_articles')
        /\ GrowsByAppend(article_metadata, article_metadata')
        /\ found_count' \in {found_count, found_count + 1}]_vars

\* C23 witness: one record was saved and a later listing fetch has failed
C23_Witness ==
  /\ found_count = 1 /\ Len(article_metadata) = 1
  /\ ev.op = "listing" /\ ev.outcome = "error"
  /\ Len(fetch_log) >= 2
====
